---- MODULE Spec2Model ----
\* Model of proptest's Option strategy (src/src/option.rs): the NoneStrategy
\* leaf, the WrapSome map function, the OptionStrategy / OptionValueTree
\* wrappers and the constructors `of` and `weighted`, together with the
\* collaborators they are built from (TupleUnion, statics::Map,
\* float_to_weight, the TestRunner's rng and the inner strategies), whose
\* code lives in other files of the crate.
EXTENDS Integers, Sequences, FiniteSets, TLC

VARIABLES
    call,       \* the constructor call made: [fn, p, inner]
    strategy,   \* what the constructor returned (or that it panicked)
    runner,     \* the TestRunner: its remaining entropy words
    gen,        \* what new_value returned: [ok, tree, err]
    log,        \* the simplify/complicate calls made: [op, ret, pre, post]
    phase,      \* where the driving test is
    seed,       \* the entropy words the runner started with
    twin        \* the same run made through weighted(0.5, inner)

vars == <<call, strategy, runner, seed, gen, log, phase, twin>>

----------------------------------------------------------------------------
\* Bounds of the model.

\* Raw entropy words are 0 .. RngMax-1.
RngMax == 4
\* The scale of the integer weights float_to_weight produces.
WeightBase == 4
\* The inner range strategy generates 0 .. RangeEnd-1 (0i32..1000i32 in
\* test_sanity, scaled down).
RangeEnd == 4
\* simplify/complicate calls the test makes before it may start minimizing.
MaxCalls == 4

----------------------------------------------------------------------------
\* Values.

\* probability_of_some: f64 is modelled in fixed point, as a numerator over PDen.
PDen == 1000
\* The literal 0.5 of `of`.
Half == PDen \div 2
\* The probabilities tried: -0.1, 0.0, 0.001, 0.1, 0.5, 0.9, 0.999, 1.0, 1.1.
Probabilities == {0 - 100, 0, 1, 100, 500, 900, 999, 1000, 1100}

\* Option<T>.
None == <<>>
Some(t) == <<t>>

\* The value of Just(42i32) in the tests.
JustValue == 42

\* A WrapSome that loses its argument.
WrapSomeDropped(t) == None

\* fn WrapSome(t: T) -> Option<T> { Some(t) }
WrapSome(t) == Some(t)

----------------------------------------------------------------------------
\* The inner strategies a caller may pass (Just, an integer range, and a
\* strategy whose generation is rejected) and their value trees.

InnerStrategies == {"just", "range", "reject"}

\* A tree of an inner strategy: a binary search over lo..hi positioned at curr
\* (Just is the one-point search).
InnerTree(lo, curr, hi) == [lo |-> lo, curr |-> curr, hi |-> hi]
NoInnerTree == InnerTree(0, 0, 0)

\* rng.gen_range(lo, hi) on the next entropy word.
GenRange(word, lo, hi) == lo + (word % (hi - lo))

\* Result<tree, error> of a new_value call together with the runner after it.
GenOk(t, r) == [ok |-> TRUE, tree |-> t, err |-> "", runner |-> r]
GenErr(e, t, r) == [ok |-> FALSE, tree |-> t, err |-> e, runner |-> r]

InnerNewValue(s, r) ==
    CASE s = "just" -> GenOk(InnerTree(JustValue, JustValue, JustValue), r)
      [] s = "reject" -> GenErr("InnerRejected", NoInnerTree, r)
      [] s = "range" ->
            IF r = <<>>
            THEN GenErr("EntropyExhausted", NoInnerTree, r)
            ELSE LET v == GenRange(Head(r), 0, RangeEnd)
                 IN GenOk(InnerTree(0, v, v), Tail(r))

InnerCurrent(t) == t.curr

\* One step toward lo; false once nothing simpler is left.
InnerSimplify(t) ==
    IF t.hi <= t.lo
    THEN [ret |-> FALSE, tree |-> t]
    ELSE LET mid == t.lo + ((t.curr - t.lo) \div 2)
         IN [ret |-> mid # t.curr,
             tree |-> [t EXCEPT !.hi = t.curr, !.curr = mid]]

\* Undo part of the last simplify; false when there is none to undo.
InnerComplicate(t) ==
    IF t.hi <= t.lo \/ t.curr >= t.hi
    THEN [ret |-> FALSE, tree |-> t]
    ELSE LET lo2 == t.curr + 1
             mid == lo2 + ((t.hi - lo2) \div 2)
         IN [ret |-> mid # t.curr,
             tree |-> [t EXCEPT !.lo = lo2, !.curr = mid]]

----------------------------------------------------------------------------
\* The two kinds of branch of the union: NoneStrategy and
\* statics::Map<T, WrapSome>.  A branch tree is [kind, source]: kind "none" is
\* the NoneStrategy tree, "map" the Map tree over the inner tree `source`, and
\* "unset" the None of the Option<...> slot of a branch that was not generated.

\* struct NoneStrategy<T>(PhantomData<T>)
NoneStrategy == [kind |-> "none", inner |-> "-"]
NoneTree == [kind |-> "none", source |-> NoInnerTree]
UnsetTree == [kind |-> "unset", source |-> NoInnerTree]

\* fn new_value(&self, _: &mut TestRunner) -> NewTree<Self> { Ok(*self) }
NoneStrategyNewValue(r) == GenOk(NoneTree, r)

\* fn current(&self) -> Option<T> { None }
NoneStrategyCurrent(t) == None

\* A NoneStrategy whose simplify reports a change.
NoneStrategySimplifyTrue(t) == [ret |-> TRUE, tree |-> t]

\* fn simplify(&mut self) -> bool { false }
NoneStrategySimplify(t) == [ret |-> FALSE, tree |-> t]

\* A NoneStrategy whose complicate reports a change.
NoneStrategyComplicateTrue(t) == [ret |-> TRUE, tree |-> t]

\* fn complicate(&mut self) -> bool { false }
NoneStrategyComplicate(t) == [ret |-> FALSE, tree |-> t]

\* statics::Map::new(t, WrapSome)
MapNew(t) == [kind |-> "map", inner |-> t]

\* Map: generate from the inner strategy; its failure is the Map's failure.
MapNewValue(s, r) ==
    LET g == InnerNewValue(s.inner, r)
    IN IF g.ok
       THEN GenOk([kind |-> "map", source |-> g.tree], g.runner)
       ELSE GenErr(g.err, UnsetTree, g.runner)

\* Map: the function applied to the inner tree's current value.
MapCurrent(t) == WrapSome(InnerCurrent(t.source))

\* Map: simplify and complicate are forwarded to the inner tree.
MapSimplify(t) ==
    LET s == InnerSimplify(t.source)
    IN [ret |-> s.ret, tree |-> [t EXCEPT !.source = s.tree]]

MapComplicate(t) ==
    LET s == InnerComplicate(t.source)
    IN [ret |-> s.ret, tree |-> [t EXCEPT !.source = s.tree]]

\* Dispatch on the branch's type.
BranchNewValue(s, r) ==
    IF s.kind = "none" THEN NoneStrategyNewValue(r) ELSE MapNewValue(s, r)

BranchCurrent(t) ==
    IF t.kind = "none" THEN NoneStrategyCurrent(t) ELSE MapCurrent(t)

BranchSimplify(t) ==
    IF t.kind = "none" THEN NoneStrategySimplify(t) ELSE MapSimplify(t)

BranchComplicate(t) ==
    IF t.kind = "none" THEN NoneStrategyComplicate(t) ELSE MapComplicate(t)

----------------------------------------------------------------------------
\* float_to_weight: the probability as a pair (weight_some, weight_none) of
\* positive integers summing to WeightBase; it panics unless 0 < p < 1.

Max(a, b) == IF a >= b THEN a ELSE b
Min(a, b) == IF a <= b THEN a ELSE b

\* (p * WeightBase).round(), for p >= 0.
RoundScaled(p) == ((2 * p * WeightBase) + PDen) \div (2 * PDen)

FloatToWeight(p) ==
    IF ~(p > 0 /\ p < PDen)
    THEN [panic |-> TRUE, pos |-> 0, neg |-> 0]
    ELSE LET pos == Max(1, Min(WeightBase - 1, RoundScaled(p)))
         IN [panic |-> FALSE, pos |-> pos, neg |-> WeightBase - pos]

----------------------------------------------------------------------------
\* TupleUnion over two (weight, strategy) pairs and its value tree
\* TupleUnionValueTree<(A, Option<B>)>: [options, pick, prev_pick, tried].

NoPick == 0 - 1

TupleUnionNew(b0, b1) == <<b0, b1>>

\* The branch the entropy word selects: proportional to the weights.
PickBranch(u, word) ==
    IF GenRange(word, 0, u[1].w + u[2].w) < u[1].w THEN 0 ELSE 1

NoUnionTree ==
    [options |-> <<UnsetTree, UnsetTree>>, pick |-> 0, prev_pick |-> NoPick,
     tried |-> FALSE]

\* Picks a branch, then generates the tree of branch 0 and, when branch 1 was
\* picked, that of branch 1; a failure of either generation is returned.
TupleUnionNewValue(u, r) ==
    IF r = <<>>
    THEN GenErr("EntropyExhausted", NoUnionTree, r)
    ELSE LET pick == PickBranch(u, Head(r))
             g0 == BranchNewValue(u[1].s, Tail(r))
             g1 == BranchNewValue(u[2].s, g0.runner)
         IN IF ~g0.ok THEN GenErr(g0.err, NoUnionTree, g0.runner)
            ELSE IF pick = 0
            THEN GenOk([options |-> <<g0.tree, UnsetTree>>, pick |-> 0,
                        prev_pick |-> NoPick, tried |-> FALSE], g0.runner)
            ELSE IF ~g1.ok THEN GenErr(g1.err, NoUnionTree, g1.runner)
            ELSE GenOk([options |-> <<g0.tree, g1.tree>>, pick |-> 1,
                        prev_pick |-> NoPick, tried |-> FALSE], g1.runner)

TupleUnionCurrent(t) == BranchCurrent(t.options[t.pick + 1])

\* First the switch to the next lower branch, once per tree; after that the
\* picked branch's own simplify.
TupleUnionSimplify(t) ==
    IF t.pick > 0 /\ ~t.tried
    THEN [ret |-> TRUE,
          tree |-> [t EXCEPT !.prev_pick = t.pick, !.pick = t.pick - 1,
                             !.tried = TRUE]]
    ELSE LET s == BranchSimplify(t.options[t.pick + 1])
         IN [ret |-> s.ret,
             tree |-> [t EXCEPT !.options[t.pick + 1] = s.tree,
                                !.prev_pick = IF s.ret THEN NoPick ELSE @]]

\* Undo a pending branch switch; with none pending, the picked branch's own
\* complicate.
TupleUnionComplicate(t) ==
    IF t.prev_pick # NoPick
    THEN [ret |-> TRUE,
          tree |-> [t EXCEPT !.pick = t.prev_pick, !.prev_pick = NoPick]]
    ELSE LET s == BranchComplicate(t.options[t.pick + 1])
         IN [ret |-> s.ret,
             tree |-> [t EXCEPT !.options[t.pick + 1] = s.tree]]

----------------------------------------------------------------------------
\* OptionStrategy and OptionValueTree: the opaque wrappers around the union
\* and its tree; every method is the wrapped value's.

Panicked == [panic |-> TRUE, union |-> <<>>]

OptionStrategy(u) == [panic |-> FALSE, union |-> u]

\* The wrapper's new_value generating again when the union's generation failed.
OptionStrategyNewValueRetry(s, r) ==
    LET g == TupleUnionNewValue(s.union, r)
    IN IF g.ok THEN g ELSE TupleUnionNewValue(s.union, g.runner)

OptionStrategyNewValue(s, r) == TupleUnionNewValue(s.union, r)

OptionValueTreeCurrent(t) == TupleUnionCurrent(t)

\* The wrapper's simplify dropping the union's result and reporting no change.
OptionValueTreeSimplifyAlwaysFalse(t) ==
    [ret |-> FALSE, tree |-> TupleUnionSimplify(t).tree]

\* The wrapper's simplify dropping the union's result and reporting a change.
OptionValueTreeSimplifyAlwaysTrue(t) ==
    [ret |-> TRUE, tree |-> TupleUnionSimplify(t).tree]

OptionValueTreeSimplify(t) == TupleUnionSimplify(t)

\* The wrapper's complicate dropping the union's result and reporting a change.
OptionValueTreeComplicateAlwaysTrue(t) ==
    [ret |-> TRUE, tree |-> TupleUnionComplicate(t).tree]

\* The wrapper's complicate undoing a branch switch only, never reaching the
\* picked branch's tree.
OptionValueTreeComplicateSwitchOnly(t) ==
    IF t.prev_pick # NoPick
    THEN TupleUnionComplicate(t)
    ELSE [ret |-> FALSE, tree |-> t]

\* The wrapper's complicate forwarding to the union's simplify.
OptionValueTreeComplicateAsSimplify(t) == TupleUnionSimplify(t)

OptionValueTreeComplicate(t) == TupleUnionComplicate(t)

\* weighted with the two branches of the union in the other order.
WeightedSwapped(probability_of_some, t) ==
    LET w == FloatToWeight(probability_of_some)
    IN IF w.panic
       THEN Panicked
       ELSE OptionStrategy(TupleUnionNew(
                [w |-> w.pos, s |-> MapNew(t)],
                [w |-> w.neg, s |-> NoneStrategy]))

\* weighted pairing weight_some with NoneStrategy and weight_none with the Map.
WeightedWeightsSwapped(probability_of_some, t) ==
    LET w == FloatToWeight(probability_of_some)
    IN IF w.panic
       THEN Panicked
       ELSE OptionStrategy(TupleUnionNew(
                [w |-> w.pos, s |-> NoneStrategy],
                [w |-> w.neg, s |-> MapNew(t)]))

\* weighted computing the weights itself, without float_to_weight's check.
WeightedUnchecked(probability_of_some, t) ==
    LET weight_some == Max(1, Min(WeightBase - 1, RoundScaled(probability_of_some)))
    IN OptionStrategy(TupleUnionNew(
           [w |-> WeightBase - weight_some, s |-> NoneStrategy],
           [w |-> weight_some, s |-> MapNew(t)]))

\* pub fn weighted<T : Strategy>(probability_of_some: f64, t: T)
Weighted(probability_of_some, t) ==
    LET w == FloatToWeight(probability_of_some)
        weight_some == w.pos
        weight_none == w.neg
    IN IF w.panic
       THEN Panicked
       ELSE OptionStrategy(TupleUnionNew(
                [w |-> weight_none, s |-> NoneStrategy],
                [w |-> weight_some, s |-> MapNew(t)]))

\* of with another probability than 0.5.
OfWeightedHigh(t) == Weighted(900, t)

\* pub fn of<T : Strategy>(t: T) -> OptionStrategy<T> { weighted(0.5, t) }
Of(t) == Weighted(Half, t)

----------------------------------------------------------------------------
\* The state machine: a test constructs a strategy, generates one tree from
\* it with a runner, calls simplify and complicate on the tree in any order,
\* and may then minimize: call simplify until it returns false.

\* The runner's entropy: new_value draws at most two words (the pick, then the
\* inner range's value), so streams of zero, one and two words cover running
\* out before the pick, before the inner value, and not at all.
Words == 0 .. (RngMax - 1)
Entropies ==
    {<<>>} \cup {<<a>> : a \in Words} \cup {<<a, b>> : a \in Words, b \in Words}

NoCall == [fn |-> "-", p |-> 0, inner |-> "-"]
Unbuilt == [panic |-> FALSE, union |-> <<>>]
NoGen == [ok |-> FALSE, tree |-> NoUnionTree, err |-> ""]
NoTwin == [strategy |-> Unbuilt, gen |-> NoGen, rets |-> <<>>]

Init ==
    /\ call = NoCall
    /\ strategy = Unbuilt
    /\ runner \in Entropies
    /\ seed = runner
    /\ gen = NoGen
    /\ log = <<>>
    /\ phase = "start"
    /\ twin = NoTwin

\* The test calls of(inner).
CallOf(inner) ==
    /\ phase = "start"
    /\ call' = [fn |-> "of", p |-> Half, inner |-> inner]
    /\ strategy' = Of(inner)
    /\ phase' = IF Of(inner).panic THEN "panicked" ELSE "built"
    /\ twin' = [twin EXCEPT !.strategy = Weighted(Half, inner)]
    /\ UNCHANGED <<runner, seed, gen, log>>

\* The test calls weighted(p, inner).
CallWeighted(p, inner) ==
    /\ phase = "start"
    /\ call' = [fn |-> "weighted", p |-> p, inner |-> inner]
    /\ strategy' = Weighted(p, inner)
    /\ phase' = IF Weighted(p, inner).panic THEN "panicked" ELSE "built"
    /\ twin' = [twin EXCEPT !.strategy = Weighted(Half, inner)]
    /\ UNCHANGED <<runner, seed, gen, log>>

\* strategy.new_value(&mut runner)
NewValue ==
    /\ phase = "built"
    /\ LET g == OptionStrategyNewValue(strategy, runner)
           h == OptionStrategyNewValue(twin.strategy, runner)
       IN /\ gen' = [ok |-> g.ok, tree |-> g.tree, err |-> g.err]
          /\ runner' = g.runner
          /\ phase' = IF g.ok THEN "tree" ELSE "failed"
          /\ twin' = [twin EXCEPT !.gen = [ok |-> h.ok, tree |-> h.tree, err |-> h.err]]
    /\ UNCHANGED <<call, strategy, seed, log>>

Logged(op, s) == [op |-> op, ret |-> s.ret, pre |-> gen.tree, post |-> s.tree]

\* tree.simplify()
Simplify ==
    /\ phase = "tree"
    /\ Len(log) < MaxCalls
    /\ LET s == OptionValueTreeSimplify(gen.tree)
           h == OptionValueTreeSimplify(twin.gen.tree)
       IN /\ gen' = [gen EXCEPT !.tree = s.tree]
          /\ log' = Append(log, Logged("simplify", s))
          /\ twin' = [twin EXCEPT !.gen.tree = h.tree, !.rets = Append(@, h.ret)]
    /\ UNCHANGED <<call, strategy, runner, seed, phase>>

\* tree.complicate()
Complicate ==
    /\ phase = "tree"
    /\ Len(log) < MaxCalls
    /\ LET s == OptionValueTreeComplicate(gen.tree)
           h == OptionValueTreeComplicate(twin.gen.tree)
       IN /\ gen' = [gen EXCEPT !.tree = s.tree]
          /\ log' = Append(log, Logged("complicate", s))
          /\ twin' = [twin EXCEPT !.gen.tree = h.tree, !.rets = Append(@, h.ret)]
    /\ UNCHANGED <<call, strategy, runner, seed, phase>>

\* The test starts `while tree.simplify() {}`.
StartMinimize ==
    /\ phase = "tree"
    /\ phase' = "minimizing"
    /\ UNCHANGED <<call, strategy, runner, seed, gen, log, twin>>

\* One iteration of `while tree.simplify() {}`.
MinimizeStep ==
    /\ phase = "minimizing"
    /\ LET s == OptionValueTreeSimplify(gen.tree)
           h == OptionValueTreeSimplify(twin.gen.tree)
       IN /\ gen' = [gen EXCEPT !.tree = s.tree]
          /\ phase' = IF s.ret THEN "minimizing" ELSE "minimal"
          /\ twin' = [twin EXCEPT !.gen.tree = h.tree]
    /\ UNCHANGED <<call, strategy, runner, seed, log>>

Next ==
    \/ \E inner \in InnerStrategies : CallOf(inner)
    \/ \E p \in Probabilities, inner \in InnerStrategies : CallWeighted(p, inner)
    \/ NewValue
    \/ Simplify
    \/ Complicate
    \/ StartMinimize
    \/ MinimizeStep

Spec == Init /\ [][Next]_vars

\* The minimizing loop runs on: nothing suspends the test between iterations.
FairSpec == Spec /\ WF_vars(MinimizeStep)

----------------------------------------------------------------------------
\* Properties.

Calls == 1 .. Len(log)

Current(t) == OptionValueTreeCurrent(t)
IsPresent(t) == Current(t) # None
IsAbsent(t) == Current(t) = None

\* The call log[i] took the tree from present(x) to absent.
SwitchedToAbsent(i) ==
    /\ log[i].op = "simplify"
    /\ IsPresent(log[i].pre)
    /\ IsAbsent(log[i].post)

\* The call log[i] took the tree from absent back to present.
Restored(i) ==
    /\ log[i].op = "complicate"
    /\ log[i].ret
    /\ IsAbsent(log[i].pre)
    /\ IsPresent(log[i].post)

\* C1: simplify() on a tree that is present(x) and whose branch switch has not
\* been used returns true and makes current() None, and leaves the wrapped
\* value's tree as it was: x is not shrunk first.
ShrinkToAbsentFirst ==
    \A i \in Calls :
        (log[i].op = "simplify" /\ IsPresent(log[i].pre) /\ ~log[i].pre.tried)
            => /\ log[i].ret
               /\ Current(log[i].post) = None
               /\ log[i].post.options = log[i].pre.options

\* A present(x) tree with the switch unused was simplified.
ShrinkToAbsentFirstWitness ==
    \E i \in Calls :
        /\ log[i].op = "simplify"
        /\ IsPresent(log[i].pre)
        /\ ~log[i].pre.tried
        /\ Current(log[i].pre) = Some(RangeEnd - 1)

\* C2: when simplify() took the tree from present(x) to absent, the complicate()
\* that follows it returns true and current() is again Some(x), from the same
\* inner tree and with no entropy drawn.
ComplicateRestoresExactValue ==
    \A i \in Calls :
        (SwitchedToAbsent(i) /\ i + 1 <= Len(log) /\ log[i + 1].op = "complicate")
            => /\ log[i + 1].ret
               /\ Current(log[i + 1].post) = Current(log[i].pre)
               /\ log[i + 1].post.options = log[i].pre.options

\* A switch to absent was followed by complicate().
ComplicateRestoresExactValueWitness ==
    \E i \in Calls :
        /\ SwitchedToAbsent(i)
        /\ i + 1 <= Len(log)
        /\ log[i + 1].op = "complicate"
        /\ Current(log[i].pre) = Some(RangeEnd - 1)

\* The picked branch's tree.
Active(t) == t.options[t.pick + 1]

\* C3: the loop `while tree.simplify() {}` ends, and it ends with the tree
\* absent or present with an inner tree that cannot be simplified further.
MinimizeTerminates ==
    /\ (phase = "minimizing") ~> (phase = "minimal")
    /\ [](phase = "minimal" =>
            \/ IsAbsent(gen.tree)
            \/ IsPresent(gen.tree) /\ ~BranchSimplify(Active(gen.tree)).ret)

\* The loop has ended on a present tree whose value it shrank to the minimum.
MinimizeTerminatesWitness ==
    /\ phase = "minimal"
    /\ Current(gen.tree) = Some(0)
    /\ \E i \in Calls : Current(log[i].pre) = Some(RangeEnd - 1)

\* new_value has been called.
Generated == phase \in {"tree", "failed", "minimizing", "minimal"}

\* C4: weighted(p, inner) panics, and returns no strategy, exactly when
\* p <= 0 or p >= 1.
WeightedRejectsOutOfRange ==
    (call.fn = "weighted")
        => /\ strategy.panic <=> (call.p <= 0 \/ call.p >= PDen)
           /\ strategy.panic
                => (phase = "panicked" /\ strategy.union = <<>> /\ gen = NoGen)
           /\ ~strategy.panic => (Len(strategy.union) = 2 /\ phase # "panicked")

\* weighted was called with a probability above 1 and panicked.
WeightedRejectsOutOfRangeWitness ==
    /\ call.fn = "weighted"
    /\ call.p > PDen
    /\ strategy.panic

\* The call log[i] was answered by the NoneStrategy tree.
AnsweredByNone(i) ==
    /\ Active(log[i].pre).kind = "none"
    /\ log[i].op = "complicate" => log[i].pre.prev_pick = NoPick

\* C5: NoneStrategy's new_value succeeds whatever the runner and the other
\* branch do, its tree's current() is None before and after every call, and
\* every simplify() and complicate() it answers returns false.
NoneStrategyIsTerminal ==
    /\ (Generated /\ seed # <<>> /\ PickBranch(strategy.union, Head(seed)) = 0)
          => (gen.ok /\ Active(gen.tree).kind = "none")
    /\ (gen.ok /\ Active(gen.tree).kind = "none") => Current(gen.tree) = None
    /\ \A i \in Calls :
          AnsweredByNone(i)
              => /\ ~log[i].ret
                 /\ Current(log[i].pre) = None
                 /\ Current(log[i].post) = None

\* A NoneStrategy tree generated beside a failing inner strategy has answered
\* a simplify() and a complicate().
NoneStrategyIsTerminalWitness ==
    /\ call.inner = "reject"
    /\ \E i, j \in Calls :
          /\ AnsweredByNone(i) /\ log[i].op = "simplify"
          /\ AnsweredByNone(j) /\ log[j].op = "complicate"

\* C6: a run through of(s) and the run through weighted(0.5, s) on the same
\* entropy and the same calls agree on the strategy, the generation result,
\* the picked branch, current() and every return value.
OfIsWeightedHalf ==
    (call.fn = "of")
        => /\ strategy = twin.strategy
           /\ gen.ok = twin.gen.ok
           /\ gen.err = twin.gen.err
           /\ gen.tree.pick = twin.gen.tree.pick
           /\ gen.ok => Current(gen.tree) = Current(twin.gen.tree)
           /\ gen.tree = twin.gen.tree
           /\ twin.rets = [i \in Calls |-> log[i].ret]

\* A present tree from of(s) has been simplified and complicated.
OfIsWeightedHalfWitness ==
    /\ call.fn = "of"
    /\ Len(log) >= 2
    /\ IsPresent(gen.tree)
    /\ \E i \in Calls : log[i].ret

\* C8: when the entropy runs out or the inner strategy's generation fails,
\* new_value returns that failure and no tree and draws no further entropy;
\* simplify and complicate only ever return a boolean.
GenerationFailurePropagates ==
    /\ (Generated /\ seed = <<>>)
          => (~gen.ok /\ gen.err = "EntropyExhausted" /\ gen.tree = NoUnionTree)
    /\ (Generated /\ seed # <<>> /\ PickBranch(strategy.union, Head(seed)) = 1)
          => LET g == InnerNewValue(call.inner, Tail(seed))
             IN ~g.ok => /\ ~gen.ok
                         /\ gen.err = g.err
                         /\ gen.tree = NoUnionTree
                         /\ runner = g.runner
    /\ ~gen.ok => log = <<>>
    /\ \A i \in Calls : log[i].ret \in BOOLEAN

\* The inner strategy's generation failed with entropy left in the runner.
GenerationFailurePropagatesWitness ==
    /\ phase = "failed"
    /\ gen.err = "InnerRejected"
    /\ runner # <<>>

\* C9: after complicate() has restored present(x) from absent, a complicate()
\* that follows it directly returns false and current() stays Some(x).
SecondComplicateIsNoOp ==
    \A i \in Calls :
        (Restored(i) /\ i + 1 <= Len(log) /\ log[i + 1].op = "complicate")
            => /\ ~log[i + 1].ret
               /\ Current(log[i + 1].post) = Current(log[i].post)
               /\ IsPresent(log[i + 1].post)

\* A restoring complicate() was followed by another complicate().
SecondComplicateIsNoOpWitness ==
    \E i \in Calls :
        /\ Restored(i)
        /\ i + 1 <= Len(log)
        /\ log[i + 1].op = "complicate"
        /\ Current(log[i].post) = Some(RangeEnd - 1)

\* No simplify() before the call log[i] returned true.
NothingToUndo(i) ==
    \A j \in 1 .. (i - 1) : ~(log[j].op = "simplify" /\ log[j].ret)

\* C10: complicate() on a tree on which no simplify() has succeeded, a fresh
\* tree included, returns false and leaves current() as it was.
ComplicateWithNothingToUndo ==
    \A i \in Calls :
        (log[i].op = "complicate" /\ NothingToUndo(i))
            => /\ ~log[i].ret
               /\ Current(log[i].post) = Current(log[i].pre)

\* complicate() was the first and the second call on a fresh present tree.
ComplicateWithNothingToUndoWitness ==
    /\ Len(log) >= 2
    /\ log[1].op = "complicate"
    /\ log[2].op = "complicate"
    /\ IsPresent(log[1].pre)
    /\ Current(log[1].pre) = Some(RangeEnd - 1)

\* The constructor returned a strategy.
Built == phase # "start" /\ ~strategy.panic

\* C11: the strategy weighted(p, inner) returns holds exactly two branches:
\* branch 0 is NoneStrategy with the weight of None, branch 1 is the WrapSome
\* map over inner with the weight of Some; a generated tree has the
\* NoneStrategy tree in slot 0 and, when branch 1 was picked, the map's tree
\* in slot 1.
WeightedBranchOrder ==
    /\ Built
          => /\ Len(strategy.union) = 2
             /\ strategy.union[1].s = NoneStrategy
             /\ strategy.union[1].w = FloatToWeight(call.p).neg
             /\ strategy.union[2].s = MapNew(call.inner)
             /\ strategy.union[2].w = FloatToWeight(call.p).pos
    /\ gen.ok
          => /\ gen.tree.options[1].kind = "none"
             /\ gen.tree.options[2].kind = "map"
                   <=> PickBranch(strategy.union, Head(seed)) = 1

\* A tree with branch 1 picked came from weighted(0.9, inner), whose two
\* weights differ.
WeightedBranchOrderWitness ==
    /\ call.fn = "weighted"
    /\ call.p = 900
    /\ gen.ok
    /\ gen.tree.options[2].kind = "map"
    /\ strategy.union[2].w > strategy.union[1].w

\* The probabilities weighted accepts.
Accepted == {q \in Probabilities : q > 0 /\ q < PDen}

\* C13: for every accepted probability both weights of the strategy are at
\* least 1, and against every other accepted probability the conversion is
\* monotonic: a probability no lower gives a weight of Some no lower and a
\* weight of None no higher.
WeightsPositiveAndMonotonic ==
    (Built /\ call.fn = "weighted")
        => /\ call.p \in Accepted
           /\ strategy.union[1].w >= 1
           /\ strategy.union[2].w >= 1
           /\ \A q \in Accepted :
                 q <= call.p
                    => /\ FloatToWeight(q).pos <= strategy.union[2].w
                       /\ FloatToWeight(q).neg >= strategy.union[1].w
           /\ call.p >= Half
                 => /\ strategy.union[2].w >= twin.strategy.union[2].w
                    /\ strategy.union[1].w <= twin.strategy.union[1].w

\* weighted was called with the lowest accepted probability, whose scaled
\* weight of Some rounds to zero before it is raised to 1.
WeightsPositiveAndMonotonicWitness ==
    /\ Built
    /\ call.fn = "weighted"
    /\ call.p = 1
    /\ RoundScaled(call.p) = 0
    /\ strategy.union[2].w = 1

\* The inner tree under the picked branch.
InnerOf(t) == Active(t).source

\* C14: simplify() on a tree that is present and whose branch switch has been
\* used returns what the inner tree's simplify returns, and the tree stays
\* present with current() Some of the inner tree's value after that step; it
\* does not become absent.
SimplifyDelegatesToInner ==
    \A i \in Calls :
        (log[i].op = "simplify" /\ IsPresent(log[i].pre) /\ log[i].pre.tried)
            => LET s == InnerSimplify(InnerOf(log[i].pre))
               IN /\ log[i].ret = s.ret
                  /\ IsPresent(log[i].post)
                  /\ Current(log[i].post) = Some(InnerCurrent(s.tree))
                  /\ InnerOf(log[i].post) = s.tree
                  /\ log[i].post.pick = log[i].pre.pick

\* With the switch used, simplify() shrank the wrapped value to a smaller one.
SimplifyDelegatesToInnerWitness ==
    \E i \in Calls :
        /\ log[i].op = "simplify"
        /\ log[i].pre.tried
        /\ log[i].ret
        /\ Current(log[i].pre) = Some(RangeEnd - 1)
        /\ Current(log[i].post) = Some((RangeEnd - 1) \div 2)

\* The last call before log[i] that returned true was a simplify() of the
\* inner tree: the tree was present before and after it.
AfterInnerSimplify(i) ==
    \E j \in 1 .. (i - 1) :
        /\ log[j].op = "simplify"
        /\ log[j].ret
        /\ IsPresent(log[j].pre)
        /\ IsPresent(log[j].post)
        /\ \A k \in (j + 1) .. (i - 1) : ~log[k].ret

\* C15: complicate() on a present tree whose last change was a simplify() of
\* the inner tree returns what the inner tree's complicate returns, and the
\* tree stays present with current() Some of the inner tree's value after it.
ComplicateDelegatesToInner ==
    \A i \in Calls :
        (log[i].op = "complicate" /\ IsPresent(log[i].pre) /\ AfterInnerSimplify(i))
            => LET s == InnerComplicate(InnerOf(log[i].pre))
               IN /\ log[i].ret = s.ret
                  /\ IsPresent(log[i].post)
                  /\ Current(log[i].post) = Some(InnerCurrent(s.tree))
                  /\ InnerOf(log[i].post) = s.tree

\* complicate() after an inner simplify() moved the wrapped value back up.
ComplicateDelegatesToInnerWitness ==
    \E i \in Calls :
        /\ log[i].op = "complicate"
        /\ AfterInnerSimplify(i)
        /\ log[i].ret
        /\ Current(log[i].pre) = Some((RangeEnd - 1) \div 2)
        /\ Current(log[i].post) = Some(((RangeEnd - 1) \div 2) + 1)

\* Branch switches made and not undone, among the calls logged.
PendingSwitches ==
    Cardinality({i \in Calls : SwitchedToAbsent(i)})
        - Cardinality({i \in Calls : Restored(i)})

\* C16: simplify() on an absent tree, generated absent or switched to absent,
\* returns false and current() stays None; at most one branch switch is
\* pending, and one is pending exactly when the tree remembers the branch to
\* go back to.
AbsentIsTerminal ==
    /\ \A i \in Calls :
          (log[i].op = "simplify" /\ IsAbsent(log[i].pre))
              => /\ ~log[i].ret
                 /\ Current(log[i].post) = None
                 /\ log[i].post = log[i].pre
    /\ (phase = "minimal" /\ IsAbsent(gen.tree))
          => ~OptionValueTreeSimplify(gen.tree).ret
    /\ PendingSwitches \in {0, 1}
    /\ phase = "tree" => (PendingSwitches = 1 <=> gen.tree.prev_pick # NoPick)
    /\ gen.tree.prev_pick # NoPick
          => /\ IsAbsent(gen.tree)
             /\ gen.tree.prev_pick = 1
             /\ gen.tree.options[2].kind = "map"

\* simplify() was called on a tree switched to absent, its switch pending.
AbsentIsTerminalWitness ==
    \E i \in Calls :
        /\ log[i].op = "simplify"
        /\ IsAbsent(log[i].pre)
        /\ log[i].pre.prev_pick # NoPick
        /\ PendingSwitches = 1

\* C17: a simplify() or complicate() that returns false leaves current() as
\* it was.
FalseMeansUnchanged ==
    \A i \in Calls :
        ~log[i].ret => Current(log[i].post) = Current(log[i].pre)

\* Both calls have returned false on a present tree and true on one.
FalseMeansUnchangedWitness ==
    \E i, j, k \in Calls :
        /\ log[i].op = "simplify" /\ ~log[i].ret /\ IsPresent(log[i].pre)
        /\ log[j].op = "complicate" /\ ~log[j].ret /\ IsPresent(log[j].pre)
        /\ log[k].ret

\* C18: current() is None exactly when branch 0 is picked, and with branch 1
\* picked it is Some(v), v the inner tree's current value, in every tree a
\* call started from or ended in.
CurrentFollowsBranch ==
    \A t \in {gen.tree} \cup {log[i].pre : i \in Calls} \cup {log[i].post : i \in Calls} :
        gen.ok
            => /\ OptionValueTreeCurrent(t) = <<>> <=> t.pick = 0
               /\ t.pick = 1
                     => /\ t.options[2].kind = "map"
                        /\ OptionValueTreeCurrent(t) = <<t.options[2].source.curr>>
               /\ t.pick \in {0, 1}

\* A present tree whose wrapped value simplify() has changed.
CurrentFollowsBranchWitness ==
    /\ gen.ok
    /\ gen.tree.pick = 1
    /\ \E i \in Calls :
          /\ log[i].ret
          /\ log[i].pre.pick = 1
          /\ log[i].post.pick = 1
          /\ Current(log[i].post) # Current(log[i].pre)

\* The union picked branch 0 when the tree was generated.
GeneratedAbsent ==
    /\ Generated
    /\ gen.ok
    /\ PickBranch(strategy.union, Head(seed)) = 0

\* C19: a tree generated with branch 0 picked has no tree for branch 1; its
\* current() is None before and after every call, every call returns false,
\* and no tree is ever on a higher branch than the one picked for it.
GeneratedAbsentStaysAbsent ==
    /\ GeneratedAbsent
          => /\ Current(gen.tree) = None
             /\ gen.tree.pick = 0
             /\ gen.tree.options[2] = UnsetTree
             /\ gen.tree.prev_pick = NoPick
             /\ \A i \in Calls :
                   /\ ~log[i].ret
                   /\ Current(log[i].pre) = None
                   /\ Current(log[i].post) = None
    /\ (Generated /\ gen.ok)
          => /\ gen.tree.pick <= PickBranch(strategy.union, Head(seed))
             /\ \A i \in Calls :
                   log[i].post.pick <= PickBranch(strategy.union, Head(seed))

\* A tree generated absent beside a range strategy took simplify() and
\* complicate() calls and the minimizing loop.
GeneratedAbsentStaysAbsentWitness ==
    /\ GeneratedAbsent
    /\ call.inner = "range"
    /\ phase = "minimal"
    /\ \E i, j \in Calls : log[i].op = "simplify" /\ log[j].op = "complicate"

====
